---- MODULE Spec2Model ----
(***************************************************************************)
(* Elastic Weight Consolidation approach (src/src/approach/oewc.py, class  *)
(* Appr): the parameter snapshot, the diagonal Fisher estimate, its fusion *)
(* into the persisted importance map, the regularised loss, and the        *)
(* per-task sequence train_loop -> post_train_process.                     *)
(*                                                                         *)
(* Tensors are modelled per backbone parameter as one scalar (shape (1,)). *)
(* Reals are exact rationals [n, d] in lowest terms with d > 0.            *)
(***************************************************************************)
EXTENDS Integers, Sequences, FiniteSets, TLC

VARIABLES
    cfg,           \* lamb, alpha, num_samples (self.*), batch_size, max_exemplars
    live,          \* names of the trainable parameters of self.model.model
    params,        \* current value of every live backbone parameter
    older_params,  \* self.older_params
    fisher,        \* self.fisher
    task_cls,      \* self.model.task_cls (class count per head)
    cls_plan,      \* class counts of the tasks the scenario will present
    n_ex,          \* len(self.exemplars_dataset)
    t,             \* index of the task being processed
    pc,            \* position of the single control thread
    trn_len,       \* len(trn_loader.dataset) of the loader the caller holds
    loop_loader,   \* trn_loader as rebound inside train_loop
    post_loader,   \* trn_loader argument of post_train_process
    steps,         \* batches the generic loop has trained in this task
    ce,            \* classification term of the last criterion call
    loss,          \* value returned by the last criterion call
    curr_fisher,   \* curr_fisher local of post_train_process
    fi_stat,       \* what the last compute_fisher_matrix_diag call consumed
    alpha_used,    \* fusion weight applied by the last post_train_process
    fisher_before, \* self.fisher as it was when post_train_process was entered
    ex_at_start,   \* len(self.exemplars_dataset) when train_loop was entered
    trace          \* steps of the current task, in the order they ran

vars == <<cfg, cls_plan, live, params, older_params, fisher, task_cls, n_ex, t, pc, trn_len,
          loop_loader, post_loader, steps, ce, loss, curr_fisher, fi_stat,
          alpha_used, fisher_before, ex_at_start, trace>>

----------------------------------------------------------------------------
(* Bounds of the exploration *)

MaxTasks == 3
MaxTrainSteps == 2

----------------------------------------------------------------------------
(* Exact rational arithmetic *)

Abs(x) == IF x < 0 THEN -x ELSE x

RECURSIVE GCD(_, _)
GCD(a, b) == IF b = 0 THEN a ELSE GCD(b, a % b)

Norm(n, d) ==
    LET g == GCD(Abs(n), Abs(d))
        s == IF d < 0 THEN -1 ELSE 1
    IN [n |-> s * (n \div g), d |-> s * (d \div g)]

R(n, d) == Norm(n, d)
RInt(i) == [n |-> i, d |-> 1]
Zero == RInt(0)
One == RInt(1)
RAdd(x, y) == Norm(x.n * y.d + y.n * x.d, x.d * y.d)
RSub(x, y) == Norm(x.n * y.d - y.n * x.d, x.d * y.d)
RMul(x, y) == Norm(x.n * y.n, x.d * y.d)
RDivInt(x, k) == Norm(x.n, x.d * k)
RNonNeg(x) == x.n >= 0

----------------------------------------------------------------------------
(* The backbone and the inputs the environment supplies *)

\* named_parameters() order of the backbone; "w3" exists only after a restructuring
ParamOrder == <<"w1", "w2", "w3">>
Backbone == {"w1", "w2"}
AllParams == {ParamOrder[i] : i \in 1..Len(ParamOrder)}

LambSet == {0, 1000}
\* --alpha is an unvalidated float; -1 selects the class-proportional mode
AlphaSet == {RInt(0), R(1, 2), RInt(1), RInt(2), RInt(-1)}
NumSamplesSet == {-1, 1, 3}
BatchSizeSet == {2}
MaxExemplarsSet == {0, 1}
Configs == [lamb : LambSet, alpha : AlphaSet, num_samples : NumSamplesSet,
            batch_size : BatchSizeSet, max_exemplars : MaxExemplarsSet]

\* class counts of the successive tasks (repeated cyclically); they are read by the
\* class-proportional weight alone
ClsPlans == {<<2, 3, 5>>, <<5, 2, 3>>, <<3, 3, 2>>}
PlanChoices == IF cfg.alpha = RInt(-1) THEN ClsPlans ELSE {<<2, 3, 5>>}
ClsOfTask(i) == cls_plan[(i % Len(cls_plan)) + 1]
DatasetSizes == {3}        \* len(trn_loader.dataset) of a task
\* p.grad of the backbone parameters after loss.backward(), the same in every batch
GradMaps == {[n \in live |-> 2], [n \in live |-> IF n = "w1" THEN 0 ELSE 2]}
DriftSet == {0, 1}         \* change of every backbone parameter in one optimizer step
CeSet == {1, 3}            \* value of torch.nn.functional.cross_entropy

None == [n |-> 0, d |-> 0]  \* no value (not a rational: d = 0)
NoLoader == [len |-> 0, aug |-> FALSE]
NoStat == [loader |-> NoLoader, loader_batches |-> 0, n_samples_batches |-> 0,
           consumed |-> 0, processed |-> 0, n_samples |-> 0]

----------------------------------------------------------------------------
(* Data loaders: torch.utils.data.DataLoader with drop_last left at False *)

Min(a, b) == IF a < b THEN a ELSE b

\* len(loader): full batches, then one partial batch if examples remain
LoaderBatches(len, bs) == (len + bs - 1) \div bs

\* len(targets) of the i-th batch (1-based)
BatchLen(len, bs, i) == IF i * bs <= len THEN bs ELSE len - (i - 1) * bs

\* trn_loader.dataset + self.exemplars_dataset, same batch_size
AugmentedLoader(loader, exemplars) == [len |-> loader.len + exemplars, aug |-> TRUE]

----------------------------------------------------------------------------
(* compute_fisher_matrix_diag *)

NSamplesBatches(num_samples, len, bs) ==
    IF num_samples > 0 THEN num_samples \div bs + 1 ELSE len \div bs

\* itertools.islice(trn_loader, n_samples_batches) stops at the loader's end
Consumed(num_samples, len, bs) ==
    Min(NSamplesBatches(num_samples, len, bs), LoaderBatches(len, bs))

NSamples(num_samples, len, bs) == NSamplesBatches(num_samples, len, bs) * bs

\* fisher[n] += p.grad.pow(2) * len(targets), over the consumed batches
RECURSIVE Accumulate(_, _, _, _, _)
Accumulate(n, grads, len, bs, i) ==
    IF i = 0 THEN 0
    ELSE Accumulate(n, grads, len, bs, i - 1)
         + grads[i][n] * grads[i][n] * BatchLen(len, bs, i)

RECURSIVE Processed(_, _, _)
Processed(len, bs, i) ==
    IF i = 0 THEN 0 ELSE Processed(len, bs, i - 1) + BatchLen(len, bs, i)

compute_fisher_matrix_diag(loader, grads) ==
    LET bs == cfg.batch_size
        k  == Consumed(cfg.num_samples, loader.len, bs)
    IN [n \in live |->
          R(Accumulate(n, grads, loader.len, bs, k),
            NSamples(cfg.num_samples, loader.len, bs))]

FisherStat(loader) ==
    LET bs == cfg.batch_size
        k  == Consumed(cfg.num_samples, loader.len, bs)
    IN [loader            |-> loader,
        loader_batches    |-> LoaderBatches(loader.len, bs),
        n_samples_batches |-> NSamplesBatches(cfg.num_samples, loader.len, bs),
        consumed          |-> k,
        processed         |-> Processed(loader.len, bs, k),
        n_samples         |-> NSamples(cfg.num_samples, loader.len, bs)]

----------------------------------------------------------------------------
(* Fusion of post_train_process *)

RECURSIVE SumSeq(_)
SumSeq(s) == IF s = <<>> THEN 0 ELSE s[1] + SumSeq(Tail(s))

\* (mutant) the slice taken one task too far: task_cls[:t+1]
ClassAlphaOffByOne(tt) == R(SumSeq(SubSeq(task_cls, 1, tt + 1)), SumSeq(task_cls))

\* sum(self.model.task_cls[:t]) / sum(self.model.task_cls)
ClassAlpha(tt) == R(SumSeq(SubSeq(task_cls, 1, tt)), SumSeq(task_cls))

FusionAlpha(tt) == IF cfg.alpha = RInt(-1) THEN ClassAlpha(tt) ELSE cfg.alpha

\* (mutant) the two weights exchanged
FuseValueSwapped(alpha, old, cur) == RAdd(RMul(RSub(One, alpha), old), RMul(alpha, cur))

\* (mutant) the new estimate subtracted instead of added
FuseValueMinus(alpha, old, cur) == RSub(RMul(alpha, old), RMul(RSub(One, alpha), cur))

\* alpha * self.fisher[n] + (1 - alpha) * curr_fisher[n]
FuseValue(alpha, old, cur) == RAdd(RMul(alpha, old), RMul(RSub(One, alpha), cur))

\* index in ParamOrder of the first key of self.fisher missing from curr_fisher,
\* 0 when there is none
RECURSIVE FirstMissing(_, _)
FirstMissing(cur, i) ==
    IF i > Len(ParamOrder) THEN 0
    ELSE IF ParamOrder[i] \in DOMAIN fisher /\ ParamOrder[i] \notin DOMAIN cur THEN i
    ELSE FirstMissing(cur, i + 1)

IndexOf(n) == CHOOSE i \in 1..Len(ParamOrder) : ParamOrder[i] = n

\* the loop over self.fisher.keys(): entries before a missing key are already fused
\* when curr_fisher[n] raises KeyError
Fused(alpha, cur) ==
    LET m == FirstMissing(cur, 1)
    IN [n \in DOMAIN fisher |->
          IF m = 0 \/ IndexOf(n) < m THEN FuseValue(alpha, fisher[n], cur[n])
          ELSE fisher[n]]

----------------------------------------------------------------------------
(* criterion *)

\* (mutant) the quadratic term without its division by 2
PenaltyTermNoHalf(f, p, o) == RMul(f, RInt((p - o) * (p - o)))

\* torch.sum(self.fisher[n] * (p - self.older_params[n]).pow(2)) / 2
PenaltyTerm(f, p, o) == RDivInt(RMul(f, RInt((p - o) * (p - o))), 2)

RECURSIVE LossReg(_)
LossReg(i) ==
    IF i > Len(ParamOrder) THEN Zero
    ELSE LET n == ParamOrder[i]
         IN IF n \in live /\ n \in DOMAIN fisher
            THEN RAdd(PenaltyTerm(fisher[n], params[n], older_params[n]), LossReg(i + 1))
            ELSE LossReg(i + 1)

\* self.older_params[n] raises KeyError for a key of self.fisher it lacks
CriterionRaises(tt) ==
    tt > 0 /\ \E n \in live \cap DOMAIN fisher : n \notin DOMAIN older_params

RegTerm(tt) == IF tt > 0 THEN RMul(RInt(cfg.lamb), LossReg(1)) ELSE Zero

\* ce_all: cross-entropy over the concatenated heads; ce_head: over head t only
ClassificationLoss(ce_all, ce_head) == IF n_ex > 0 THEN RInt(ce_all) ELSE RInt(ce_head)

criterion(tt, ce_all, ce_head) == RAdd(RegTerm(tt), ClassificationLoss(ce_all, ce_head))

----------------------------------------------------------------------------
(* Appr.__init__ *)

Init ==
    /\ cfg \in Configs
    /\ cls_plan \in PlanChoices
    /\ live = Backbone
    /\ params = [n \in Backbone |-> 0]
    /\ older_params = [n \in Backbone |-> 0]
    /\ fisher = [n \in Backbone |-> Zero]
    /\ task_cls = <<>>
    /\ n_ex = 0
    /\ t = 0
    /\ pc = "idle"
    /\ trn_len = 0
    /\ loop_loader = NoLoader
    /\ post_loader = NoLoader
    /\ steps = 0
    /\ ce = None
    /\ loss = None
    /\ curr_fisher = [n \in Backbone |-> Zero]
    /\ fi_stat = NoStat
    /\ alpha_used = None
    /\ fisher_before = [n \in Backbone |-> Zero]
    /\ ex_at_start = 0
    /\ trace = <<>>

----------------------------------------------------------------------------
(* The caller of the approach: a head is added for the new task and the     *)
(* task is trained with train_loop, then post-processed with                 *)
(* post_train_process on the loader the caller holds.                        *)

\* A zero sample count (0/0 in the mean) is the caller's to avoid
SampleCountPositive(len) == NSamples(cfg.num_samples, len, cfg.batch_size) > 0

StartTask ==
    /\ pc = "idle"
    /\ Len(task_cls) < MaxTasks
    /\ \E len \in DatasetSizes :
          /\ SampleCountPositive(len)
          /\ trn_len' = len
    /\ task_cls' = Append(task_cls, ClsOfTask(Len(task_cls)))
    /\ t' = Len(task_cls)
    /\ pc' = "train_loop"
    /\ steps' = 0
    /\ trace' = <<>>
    /\ ex_at_start' = n_ex
    /\ UNCHANGED <<cfg, cls_plan, live, params, older_params, fisher, n_ex, loop_loader,
                   post_loader, ce, loss, curr_fisher, fi_stat, alpha_used,
                   fisher_before>>

\* the loaders the caller can hand to post_train_process: the one it gave to
\* train_loop, or the (possibly augmented) stream the task was trained on
PostTrainLoaders == {[len |-> trn_len, aug |-> FALSE], loop_loader}

\* train_loop has returned: post_train_process(t, trn_loader) is called next
CallPostTrain ==
    /\ pc = "train_loop_done"
    /\ post_loader' \in PostTrainLoaders
    /\ fisher_before' = fisher
    /\ pc' = "snapshot"
    /\ UNCHANGED <<cfg, cls_plan, live, params, older_params, fisher, task_cls, n_ex, t,
                   trn_len, loop_loader, steps, ce, loss, curr_fisher, fi_stat,
                   alpha_used, ex_at_start, trace>>

\* post_train_process has returned: the task is over
NextTask ==
    /\ pc = "task_done"
    /\ pc' = "idle"
    /\ loop_loader' = NoLoader
    /\ post_loader' = NoLoader
    /\ curr_fisher' = [n \in live |-> Zero]
    /\ fi_stat' = NoStat
    /\ alpha_used' = None
    /\ fisher_before' = fisher
    /\ steps' = 0
    /\ trace' = <<>>
    /\ trn_len' = 0
    /\ ex_at_start' = n_ex
    /\ UNCHANGED <<cfg, cls_plan, live, params, older_params, fisher, task_cls, n_ex, t,
                   ce, loss>>

----------------------------------------------------------------------------
(* Appr.train_loop *)

\* the loader train_loop goes on with: rebound when exemplars exist and t > 0
TrainLoopLoader(tt, loader) ==
    IF n_ex > 0 /\ tt > 0 THEN AugmentedLoader(loader, n_ex) ELSE loader

ExemplarMerge ==
    /\ pc = "train_loop"
    /\ loop_loader' = TrainLoopLoader(t, [len |-> trn_len, aug |-> FALSE])
    /\ trace' = IF n_ex > 0 /\ t > 0 THEN Append(trace, "merge") ELSE trace
    /\ pc' = "super_train_loop"
    /\ UNCHANGED <<cfg, cls_plan, live, params, older_params, fisher, task_cls, n_ex, t,
                   trn_len, post_loader, steps, ce, loss, curr_fisher, fi_stat,
                   alpha_used, fisher_before, ex_at_start>>

\* super().train_loop(t, trn_loader, val_loader) is entered
GenericLoopStart ==
    /\ pc = "super_train_loop"
    /\ trace' = Append(trace, "train")
    /\ pc' = "batch"
    /\ UNCHANGED <<cfg, cls_plan, live, params, older_params, fisher, task_cls, n_ex, t,
                   trn_len, loop_loader, post_loader, steps, ce, loss, curr_fisher,
                   fi_stat, alpha_used, fisher_before, ex_at_start>>

\* one batch of the generic loop: the loss is computed with criterion
CriterionCall ==
    /\ pc = "batch"
    /\ steps < MaxTrainSteps
    /\ \E ce_all \in CeSet, ce_head \in CeSet :
          IF CriterionRaises(t)
          THEN /\ pc' = "KeyError"
               /\ UNCHANGED <<ce, loss>>
          ELSE /\ ce' = ClassificationLoss(ce_all, ce_head)
               /\ loss' = criterion(t, ce_all, ce_head)
               /\ pc' = "opt_step"
    /\ UNCHANGED <<cfg, cls_plan, live, params, older_params, fisher, task_cls, n_ex, t,
                   trn_len, loop_loader, post_loader, steps, curr_fisher, fi_stat,
                   alpha_used, fisher_before, ex_at_start, trace>>

\* ... and the optimizer moves the backbone parameters
OptimizerStep ==
    /\ pc = "opt_step"
    /\ \E d \in DriftSet : params' = [n \in live |-> params[n] + d]
    /\ steps' = steps + 1
    /\ ce' = None
    /\ loss' = None
    /\ pc' = "batch"
    /\ UNCHANGED <<cfg, cls_plan, live, older_params, fisher, task_cls, n_ex, t, trn_len,
                   loop_loader, post_loader, curr_fisher, fi_stat, alpha_used,
                   fisher_before, ex_at_start, trace>>

\* (mutant) train_loop returning without the exemplar management
AfterGenericLoopNoCollect == "train_loop_done"

\* where train_loop goes on when super().train_loop returns
AfterGenericLoop == "collect_exemplars"

GenericLoopReturn ==
    /\ pc = "batch"
    /\ steps >= 1
    /\ pc' = AfterGenericLoop
    /\ UNCHANGED <<cfg, cls_plan, live, params, older_params, fisher, task_cls, n_ex, t,
                   trn_len, loop_loader, post_loader, steps, ce, loss, curr_fisher,
                   fi_stat, alpha_used, fisher_before, ex_at_start, trace>>

\* self.exemplars_dataset.collect_exemplars(self.model, trn_loader, ...)
CollectExemplars ==
    /\ pc = "collect_exemplars"
    /\ n_ex' = cfg.max_exemplars
    /\ trace' = Append(trace, "collect")
    /\ pc' = "train_loop_done"
    /\ UNCHANGED <<cfg, cls_plan, live, params, older_params, fisher, task_cls, t, trn_len,
                   loop_loader, post_loader, steps, ce, loss, curr_fisher, fi_stat,
                   alpha_used, fisher_before, ex_at_start>>

----------------------------------------------------------------------------
(* Appr.post_train_process *)

\* the loader post_train_process hands to compute_fisher_matrix_diag
FisherLoader(loader) == loader

\* (mutant) the snapshot left as it was
SnapshotStale(ps) == older_params

\* {n: p.clone().detach() for n, p in named_parameters() if p.requires_grad}
Snapshot(ps) == [n \in live |-> ps[n]]

SnapshotRefresh ==
    /\ pc = "snapshot"
    /\ older_params' = Snapshot(params)
    /\ trace' = Append(trace, "snapshot")
    /\ pc' = "fisher"
    /\ UNCHANGED <<cfg, cls_plan, live, params, fisher, task_cls, n_ex, t, trn_len,
                   loop_loader, post_loader, steps, ce, loss, curr_fisher, fi_stat,
                   alpha_used, fisher_before, ex_at_start>>

ComputeFisher ==
    /\ pc = "fisher"
    /\ LET loader == FisherLoader(post_loader)
           k == Consumed(cfg.num_samples, loader.len, cfg.batch_size)
       IN /\ \E g \in GradMaps :
                curr_fisher' = compute_fisher_matrix_diag(loader, [i \in 1..k |-> g])
          /\ fi_stat' = FisherStat(loader)
    /\ trace' = Append(trace, "fisher")
    /\ pc' = "fuse"
    /\ UNCHANGED <<cfg, cls_plan, live, params, older_params, fisher, task_cls, n_ex, t,
                   trn_len, loop_loader, post_loader, steps, ce, loss, alpha_used,
                   fisher_before, ex_at_start>>

Fuse ==
    /\ pc = "fuse"
    /\ fisher' = Fused(FusionAlpha(t), curr_fisher)
    /\ alpha_used' = FusionAlpha(t)
    /\ IF FirstMissing(curr_fisher, 1) = 0
       THEN /\ trace' = Append(trace, "fuse")
            /\ pc' = "task_done"
       ELSE /\ trace' = trace
            /\ pc' = "KeyError"
    /\ UNCHANGED <<cfg, cls_plan, live, params, older_params, task_cls, n_ex, t, trn_len,
                   loop_loader, post_loader, steps, ce, loss, curr_fisher, fi_stat,
                   fisher_before, ex_at_start>>

----------------------------------------------------------------------------
(* The backbone is restructured between two tasks: a parameter is added or  *)
(* removed.                                                                  *)

Restructure ==
    /\ pc = "idle"
    /\ Len(task_cls) >= 1
    /\ \/ \E n \in AllParams \ live :
             /\ live' = live \cup {n}
             /\ params' = [m \in live \cup {n} |-> IF m = n THEN 0 ELSE params[m]]
       \/ \E n \in live :
             /\ live \ {n} # {}
             /\ live' = live \ {n}
             /\ params' = [m \in live \ {n} |-> params[m]]
    /\ UNCHANGED <<cfg, cls_plan, older_params, fisher, task_cls, n_ex, t, pc, trn_len,
                   loop_loader, post_loader, steps, ce, loss, curr_fisher, fi_stat,
                   alpha_used, fisher_before, ex_at_start, trace>>

----------------------------------------------------------------------------

Next ==
    \/ StartTask
    \/ ExemplarMerge
    \/ GenericLoopStart
    \/ CriterionCall
    \/ OptimizerStep
    \/ GenericLoopReturn
    \/ CollectExemplars
    \/ CallPostTrain
    \/ SnapshotRefresh
    \/ ComputeFisher
    \/ Fuse
    \/ NextTask

Spec == Init /\ [][Next]_vars

NextRestructured == Next \/ Restructure

RestructuredConfigs == {c \in Configs : c.alpha = R(1, 2) /\ c.num_samples = -1}

InitRestructured == Init /\ cfg \in RestructuredConfigs

SpecRestructured == InitRestructured /\ [][NextRestructured]_vars

----------------------------------------------------------------------------
(* compute_fisher_matrix_diag on its own: one call, on every loader and     *)
(* sample budget of the ranges below, from the point where                   *)
(* post_train_process of task 0 reaches it.                                  *)

FisherNumSamples == -1..7
FisherBatchSizes == {1, 2, 3}
FisherDatasetSizes == 1..7
FisherConfigs == [lamb : {1000}, alpha : {R(1, 2)}, num_samples : FisherNumSamples,
                  batch_size : FisherBatchSizes, max_exemplars : {0}]

InitFisher ==
    /\ cfg \in FisherConfigs
    /\ cls_plan = <<2, 3, 5>>
    /\ live = Backbone
    /\ params = [n \in Backbone |-> 1]
    /\ older_params = [n \in Backbone |-> 1]
    /\ fisher = [n \in Backbone |-> Zero]
    /\ task_cls = <<2>>
    /\ n_ex = 0
    /\ t = 0
    /\ pc = "fisher"
    /\ trn_len \in FisherDatasetSizes
    /\ SampleCountPositive(trn_len)
    /\ loop_loader = [len |-> trn_len, aug |-> FALSE]
    /\ post_loader = [len |-> trn_len, aug |-> FALSE]
    /\ steps = 1
    /\ ce = None
    /\ loss = None
    /\ curr_fisher = [n \in Backbone |-> Zero]
    /\ fi_stat = NoStat
    /\ alpha_used = None
    /\ fisher_before = [n \in Backbone |-> Zero]
    /\ ex_at_start = 0
    /\ trace = <<"train", "collect", "snapshot">>

NextFisher == ComputeFisher

SpecFisher == InitFisher /\ [][NextFisher]_vars

----------------------------------------------------------------------------
(* Properties *)

IsPrefix(s, r) == Len(s) <= Len(r) /\ \A i \in 1..Len(s) : s[i] = r[i]

\* sum over a set of parameters of Importance[n] * (current - Snapshot[n])^2
RECURSIVE WeightedDrift(_)
WeightedDrift(S) ==
    IF S = {} THEN Zero
    ELSE LET n == CHOOSE x \in S : TRUE
             d == params[n] - older_params[n]
         IN RAdd(RMul(fisher[n], RInt(d * d)), WeightedDrift(S \ {n}))

\* C1: criterion returns the classification loss at t = 0 and, at t > 0, the
\* classification loss plus lamb * (1/2) * sum over the backbone parameters of
\* fisher * (current - older_params)^2; with lamb = 0 that is the
\* classification loss alone.
C1_CriterionValue ==
    pc = "opt_step" =>
        /\ t = 0 => loss = ce
        /\ t > 0 => loss = RAdd(ce, RMul(R(cfg.lamb, 2), WeightedDrift(live)))
        /\ cfg.lamb = 0 => loss = ce

\* C1 witness: lamb = 1000, two parameters of importance 4 and drift 1 add 4000
C1_Witness ==
    /\ pc = "opt_step"
    /\ t > 0
    /\ cfg.lamb = 1000
    /\ Cardinality(live) = 2
    /\ \A n \in live : fisher[n] = RInt(4) /\ params[n] - older_params[n] = 1
    /\ loss = RAdd(ce, RInt(4000))

\* the order in which the steps of one task run
TaskOrder ==
    (IF ex_at_start > 0 /\ t > 0 THEN <<"merge">> ELSE <<>>)
        \o <<"train", "collect", "snapshot", "fisher", "fuse">>

Before(a, b) ==
    \A i \in 1..Len(trace) : trace[i] = b => \E j \in 1..(i - 1) : trace[j] = a

\* C2 (as claimed): the exemplar store is updated only after the Snapshot
\* refresh and the Fisher fusion of the same task.
C2_CollectAfterFusion == Before("snapshot", "collect") /\ Before("fuse", "collect")

\* C2 (amended): the steps of a task run in the order (merge) -> generic
\* training loop -> exemplar collection -> Snapshot refresh -> Fisher
\* estimation -> fusion, all of them by the end of the task, and training is
\* never re-entered once the generic loop has returned.
C2_TaskOrder ==
    /\ IsPrefix(trace, TaskOrder)
    /\ pc = "task_done" => trace = TaskOrder
    /\ pc \in {"batch", "opt_step"} => trace[Len(trace)] = "train"

C2_Witness ==
    /\ pc = "task_done"
    /\ trace = <<"merge", "train", "collect", "snapshot", "fisher", "fuse">>

\* C3: the estimator consumes every batch of the loader when fi_num_samples is
\* non-positive and floor(fi_num_samples / batch_size) + 1 batches when it is
\* positive.
C3_BatchesConsumed ==
    pc = "fuse" =>
        fi_stat.consumed =
            IF cfg.num_samples > 0
            THEN cfg.num_samples \div cfg.batch_size + 1
            ELSE fi_stat.loader_batches

\* fixed-alpha fusion of one entry, cleared of the denominator of alpha
FixedFusion(new, old, cur) ==
    RMul(new, RInt(cfg.alpha.d)) =
        RAdd(RMul(RInt(cfg.alpha.n), old), RMul(RInt(cfg.alpha.d - cfg.alpha.n), cur))

\* C4: in fixed-alpha mode post_train_process leaves every entry of the
\* Importance Map at alpha * old + (1 - alpha) * estimate: unchanged for
\* alpha = 1, the estimate itself for alpha = 0.
C4_FixedAlphaFusion ==
    (pc = "task_done" /\ cfg.alpha # RInt(-1)) =>
        /\ DOMAIN fisher = DOMAIN fisher_before
        /\ \A n \in DOMAIN fisher : FixedFusion(fisher[n], fisher_before[n], curr_fisher[n])
        /\ cfg.alpha = RInt(1) => fisher = fisher_before
        /\ cfg.alpha = RInt(0) => fisher = curr_fisher

C4_Witness ==
    /\ pc = "task_done"
    /\ cfg.alpha = R(1, 2)
    /\ \E n \in DOMAIN fisher :
          /\ fisher_before[n] # Zero
          /\ fisher_before[n] # curr_fisher[n]
          /\ fisher[n] # fisher_before[n]

\* classes of the tasks 0 .. k-1
RECURSIVE ClassesBefore(_)
ClassesBefore(k) == IF k = 0 THEN 0 ELSE ClassesBefore(k - 1) + ClsOfTask(k - 1)

\* C5: in class-proportional mode the weight used for task t is
\* (classes of tasks 0..t-1) / (classes of tasks 0..t); it is 0 at t = 0, where
\* the map becomes the new estimate.
C5_ClassProportionalAlpha ==
    (pc = "task_done" /\ cfg.alpha = RInt(-1)) =>
        /\ alpha_used.d * ClassesBefore(t) = alpha_used.n * ClassesBefore(t + 1)
        /\ alpha_used.d > 0
        /\ t = 0 => alpha_used = Zero /\ fisher = curr_fisher

\* C5 witness: class counts [2, 3, 5] give 1/2 at t = 2
C5_Witness ==
    /\ pc = "task_done"
    /\ cfg.alpha = RInt(-1)
    /\ task_cls = <<2, 3, 5>>
    /\ t = 2
    /\ alpha_used = R(1, 2)

\* C6: from the Snapshot refresh on, through Fisher estimation and fusion and
\* until a training step moves a parameter, older_params equals the current
\* value of every backbone parameter and criterion adds no penalty.
C6_SnapshotEqualsParams ==
    /\ (pc \in {"fisher", "fuse", "task_done"} \/ steps = 0) =>
          /\ DOMAIN older_params = live
          /\ \A n \in live : older_params[n] = params[n]
    /\ (pc = "opt_step" /\ steps = 0) => loss = ce

C6_Witness ==
    /\ pc = "opt_step"
    /\ steps = 0
    /\ t > 0
    /\ cfg.lamb = 1000
    /\ \E n \in live : fisher[n] # Zero /\ params[n] # 0
    /\ loss = ce

NonNegativeMaps ==
    /\ \A n \in DOMAIN fisher : RNonNeg(fisher[n])
    /\ \A n \in DOMAIN curr_fisher : RNonNeg(curr_fisher[n])

\* C7 (as claimed): for any accepted alpha, every element of the Importance Map
\* and of every fresh estimate is non-negative.
C7_NonNegativeAnyAlpha == NonNegativeMaps

AlphaInUnitInterval == cfg.alpha.n >= 0 /\ cfg.alpha.n <= cfg.alpha.d

\* C7 (amended): with alpha in [0, 1] or the sentinel -1, every element of the
\* Importance Map and of every fresh estimate is non-negative.
C7_NonNegativeUnitAlpha ==
    (AlphaInUnitInterval \/ cfg.alpha = RInt(-1)) => NonNegativeMaps

C7_Witness ==
    /\ pc = "task_done"
    /\ t > 0
    /\ cfg.alpha = R(1, 2)
    /\ \E n \in DOMAIN fisher : fisher[n].n > 0 /\ fisher[n] # curr_fisher[n]

\* C8: when the keys of the Importance Map or of the Snapshot differ from the
\* live backbone's parameter names, neither criterion nor post_train_process
\* completes normally.
C8_MismatchIsFatal ==
    ((pc = "opt_step" /\ t > 0) \/ pc = "task_done") =>
        (DOMAIN fisher = live /\ DOMAIN older_params = live)

\* C9: the divisor of the accumulated squared gradients is the number of
\* examples in the batches that were accumulated.
C9_DivisorIsProcessed == pc = "fuse" => fi_stat.n_samples = fi_stat.processed

====
